---- MODULE Spec2Model ----
(***************************************************************************)
(* A model of tkex.py: DraggableWidget / SeriesWidget / Series / Row /     *)
(* Column / DroppableWidget on top of the tkinter event loop.              *)
(*                                                                         *)
(* The toolkit is modelled by what the code uses of it:                    *)
(*   - `pending`  : the after() callbacks waiting in the event loop;       *)
(*   - `pl`       : the place geometry manager's record of each widget;    *)
(*   - `geom`     : the realised geometry (what winfo_x / winfo_y return); *)
(*                  the placer recomputes it from `pl` in an idle task,    *)
(*                  so inside a handler it changes only in                 *)
(*                  update_idletasks, and between handlers in Settle;      *)
(*   - `stack`    : the stacking order (tkraise);                          *)
(*   - `pointer`  : what winfo_pointerx / winfo_pointery return.           *)
(* Every method of the source is an operator from a program state (the     *)
(* record Cur) to the program state it leaves; every handler the event     *)
(* loop can run is an action that commits the result of its operator.      *)
(***************************************************************************)
EXTENDS Integers, Sequences, FiniteSets, TLC

VARIABLES
    wd,          \* DraggableWidget fields of each widget
    cls,         \* the class of each widget
    req,         \* winfo_reqwidth / winfo_reqheight of each widget
    mreq,        \* winfo_reqwidth / winfo_reqheight of the master
    pl,          \* place manager: managed, x, y of each widget
    geom,        \* winfo_x / winfo_y of each widget
    stack,       \* stacking order, topmost last
    pending,     \* after() callbacks waiting in the event loop
    pointer,     \* winfo_pointerx / winfo_pointery
    ser,         \* the Series object: status, series list, orientation
    ev,          \* the last handler the event loop ran, and its widget
    drag         \* what the last on_click of each widget recorded

vars ==
    <<wd, cls, req, mreq, pl, geom, stack, pending, pointer, ser, ev, drag>>

----------------------------------------------------------------------------
(* Bounds *)

NumWidgets == 2
MaxPending == 2
MaxCoord == 16

(* Program constants *)

Margin == 5
None == 0

----------------------------------------------------------------------------
(* Input sets *)

Widgets == 1..NumWidgets
Handles == 1..(MaxPending + 1)
PointerPoints == {[x |-> 0, y |-> 0], [x |-> 16, y |-> 16]}
SmallSize == [w |-> 2, h |-> 2]
WideSize == [w |-> 24, h |-> 2]
TallSize == [w |-> 2, h |-> 24]
WidgetSizes == {SmallSize, WideSize, TallSize}
MasterSizes == {[w |-> 8, h |-> 8]}
SiblingSizes == {SmallSize}
PlacePoints == {[x |-> 0, y |-> 0], [x |-> 4, y |-> 4]}
UserPoints == {[x |-> 4, y |-> 4]}

HORIZONTAL == "horizontal"
VERTICAL == "vertical"

----------------------------------------------------------------------------
(* The program state as one value *)

Cur ==
    [wd |-> wd, cls |-> cls, req |-> req, mreq |-> mreq, pl |-> pl,
     geom |-> geom, stack |-> stack, pending |-> pending,
     pointer |-> pointer, ser |-> ser]

----------------------------------------------------------------------------
(* tkinter *)

winfo_x(s, w) == s.geom[w].x
winfo_y(s, w) == s.geom[w].y
winfo_reqwidth(s, w) == s.req[w].w
winfo_reqheight(s, w) == s.req[w].h
winfo_pointerx(s) == s.pointer.x
winfo_pointery(s) == s.pointer.y

tk_place(s, w, X, Y) ==
    [s EXCEPT !.pl[w] = [managed |-> TRUE, x |-> X, y |-> Y]]

tk_place_forget(s, w) ==
    [s EXCEPT !.pl[w].managed = FALSE]

tkraise(s, w) ==
    [s EXCEPT !.stack = Append(SelectSeq(s.stack, LAMBDA v : v # w), w)]

update_idletasks(s) ==
    [s EXCEPT !.geom = [w \in Widgets |->
        IF s.pl[w].managed THEN [x |-> s.pl[w].x, y |-> s.pl[w].y]
        ELSE s.geom[w]]]

(* What a handler leaves behind: when it returns, the event loop goes idle *)
(* before the next event or timer is served, and the idle tasks (the       *)
(* placer's geometry recomputation) run.                                   *)
Settle(s) == update_idletasks(s)

Commit(s) ==
    LET t == Settle(s)
    IN  /\ wd' = t.wd
        /\ cls' = t.cls
        /\ req' = t.req
        /\ mreq' = t.mreq
        /\ pl' = t.pl
        /\ geom' = t.geom
        /\ stack' = t.stack
        /\ pending' = t.pending
        /\ pointer' = t.pointer
        /\ ser' = t.ser

FreeHandle(s) ==
    CHOOSE h \in Handles :
        /\ h \notin {t.id : t \in s.pending}
        /\ \A g \in Handles :
              g \notin {t.id : t \in s.pending} => h <= g

after_cancel(s, h) ==
    [s EXCEPT !.pending = {t \in s.pending : t.id # h}]

----------------------------------------------------------------------------
(* DraggableWidget *)

DraggableWidget_init ==
    [placed |-> FALSE, x |-> 0, y |-> 0, last_x |-> 0, last_y |-> 0,
     px |-> 0, py |-> 0, place_timer |-> None]

place(s, w, X, Y) ==
    tk_place([s EXCEPT !.wd[w].placed = TRUE], w, X, Y)

place_forget(s, w) ==
    tk_place_forget([s EXCEPT !.wd[w].placed = FALSE], w)

(* Clamp without its lower bound *)
Clamp_upper(v, max) ==
    IF v > max THEN max ELSE v

Clamp(v, max) ==
    LET v1 == IF v > max THEN max ELSE v
    IN  IF v1 < -Margin THEN -Margin ELSE v1

after_place_again(s, w) ==
    LET h == FreeHandle(s)
    IN  [s EXCEPT !.pending = s.pending \cup {[id |-> h, w |-> w]},
                  !.wd[w].place_timer = h]

Moved(s, w) ==
    s.wd[w].x # s.wd[w].last_x \/ s.wd[w].y # s.wd[w].last_y

Replace(s, w) ==
    LET a == place_forget(s, w)
        max_x == a.mreq.w - winfo_reqwidth(a, w) + Margin
        max_y == a.mreq.h - winfo_reqheight(a, w) + Margin
        nx == Clamp(a.wd[w].x, max_x)
        ny == Clamp(a.wd[w].y, max_y)
        b == [a EXCEPT !.wd[w].x = nx, !.wd[w].y = ny]
        c == place(b, w, nx, ny)
    IN  [c EXCEPT !.wd[w].last_x = nx, !.wd[w].last_y = ny]

(* _place_again rescheduling itself only when it moved the widget *)
place_again_lazy(s, w) ==
    IF Moved(s, w) THEN after_place_again(Replace(s, w), w) ELSE s

place_again(s, w) ==
    after_place_again(IF Moved(s, w) THEN Replace(s, w) ELSE s, w)

(* on_click without its _placed guard *)
on_click_unguarded(s, w) ==
    LET a == tkraise(s, w)
        b == [a EXCEPT !.wd[w].x = winfo_x(a, w),
                       !.wd[w].y = winfo_y(a, w),
                       !.wd[w].last_x = winfo_x(a, w),
                       !.wd[w].last_y = winfo_y(a, w),
                       !.wd[w].px = winfo_pointerx(a),
                       !.wd[w].py = winfo_pointery(a)]
    IN  place_again(b, w)

on_click(s, w) ==
    IF ~s.wd[w].placed THEN s
    ELSE
        LET a == tkraise(s, w)
            b == [a EXCEPT !.wd[w].x = winfo_x(a, w),
                           !.wd[w].y = winfo_y(a, w),
                           !.wd[w].last_x = winfo_x(a, w),
                           !.wd[w].last_y = winfo_y(a, w),
                           !.wd[w].px = winfo_pointerx(a),
                           !.wd[w].py = winfo_pointery(a)]
        IN  place_again(b, w)

(* on_move that does not remember the pointer position it has used *)
on_move_stale(s, w) ==
    IF ~s.wd[w].placed THEN s
    ELSE
        LET p == winfo_pointerx(s)
            q == winfo_pointery(s)
        IN  [s EXCEPT !.wd[w].x = @ + (p - s.wd[w].px),
                      !.wd[w].y = @ + (q - s.wd[w].py)]

on_move(s, w) ==
    IF ~s.wd[w].placed THEN s
    ELSE
        LET p == winfo_pointerx(s)
            q == winfo_pointery(s)
        IN  [s EXCEPT !.wd[w].x = @ + (p - s.wd[w].px),
                      !.wd[w].y = @ + (q - s.wd[w].py),
                      !.wd[w].px = p,
                      !.wd[w].py = q]

on_stop(s, w) ==
    IF ~s.wd[w].placed THEN s
    ELSE
        LET a == IF s.wd[w].place_timer # None
                 THEN LET c == after_cancel(s, s.wd[w].place_timer)
                          d == [c EXCEPT !.wd[w].place_timer = None]
                          e == place_forget(d, w)
                      IN  place(e, w, e.wd[w].x, e.wd[w].y)
                 ELSE s
        IN  [a EXCEPT !.wd[w].x = winfo_x(a, w),
                      !.wd[w].y = winfo_y(a, w)]

----------------------------------------------------------------------------
(* Series, Row, Column *)

NoOrientation == "None"
Orientations == {NoOrientation, HORIZONTAL, VERTICAL, "diagonal"}

Series_unborn ==
    [raised |-> FALSE, frame |-> FALSE, attrs |-> {}, series |-> <<>>,
     orientation |-> NoOrientation, sort_function |-> "none",
     manager |-> "none"]

(* Series.__init__ checking only that an orientation was given *)
Series_init_lenient(orientation) ==
    IF orientation = NoOrientation
    THEN [Series_unborn EXCEPT !.raised = TRUE]
    ELSE [raised |-> FALSE, frame |-> TRUE,
          attrs |-> {"series", "orientation", "sort_function"},
          series |-> <<>>, orientation |-> orientation,
          sort_function |-> IF orientation = HORIZONTAL
                            THEN "winfo_x" ELSE "winfo_y",
          manager |-> "none"]

Series_init(orientation) ==
    IF orientation = NoOrientation
    THEN [Series_unborn EXCEPT !.raised = TRUE]
    ELSE IF orientation \notin {HORIZONTAL, VERTICAL}
    THEN [Series_unborn EXCEPT !.raised = TRUE]
    ELSE [raised |-> FALSE, frame |-> TRUE,
          attrs |-> {"series", "orientation", "sort_function"},
          series |-> <<>>, orientation |-> orientation,
          sort_function |-> IF orientation = HORIZONTAL
                            THEN "winfo_x" ELSE "winfo_y",
          manager |-> "none"]

Row_init == Series_init(HORIZONTAL)

Column_init == Series_init(VERTICAL)

sort_function(s, w) ==
    IF s.ser.sort_function = "winfo_x" THEN winfo_x(s, w) ELSE winfo_y(s, w)

(* list.sort(key=...): a stable sort, equal keys keep their order *)
RECURSIVE Insert(_, _, _)
Insert(s, sorted, w) ==
    IF sorted = <<>> THEN <<w>>
    ELSE IF sort_function(s, w) < sort_function(s, sorted[Len(sorted)])
         THEN Append(Insert(s, SubSeq(sorted, 1, Len(sorted) - 1), w),
                     sorted[Len(sorted)])
         ELSE Append(sorted, w)

RECURSIVE Sorted(_, _)
Sorted(s, list) ==
    IF list = <<>> THEN <<>>
    ELSE Insert(s, Sorted(s, SubSeq(list, 1, Len(list) - 1)), list[Len(list)])

(* the loop of Series.cleanup from index i, the running offsets being x, y *)
RECURSIVE cleanup_loop(_, _, _, _)
cleanup_loop(s, i, x, y) ==
    IF i > Len(s.ser.series) THEN s
    ELSE
        LET w == s.ser.series[i]
            a == place(place_forget(s, w), w, x, y)
        IN  IF a.ser.orientation = HORIZONTAL
            THEN cleanup_loop(a, i + 1, x + winfo_reqwidth(a, w), y)
            ELSE cleanup_loop(a, i + 1, x, y + winfo_reqheight(a, w))

(* cleanup without the sort *)
cleanup_unsorted(s) ==
    cleanup_loop(s, 1, 0, 0)

cleanup(s) ==
    cleanup_loop([s EXCEPT !.ser.series = Sorted(s, s.ser.series)], 1, 0, 0)

(* the loop of Series.append from index i; r holds x, y, width, height *)
RECURSIVE append_loop(_, _, _)
append_loop(s, i, r) ==
    IF i > Len(s.ser.series) THEN r
    ELSE
        LET widget == s.ser.series[i]
        IN  IF s.ser.orientation = HORIZONTAL
            THEN append_loop(s, i + 1,
                    [r EXCEPT !.x = @ + winfo_reqwidth(s, widget),
                              !.height =
                                  IF @ < winfo_reqheight(s, widget)
                                  THEN winfo_reqheight(s, widget) ELSE @])
            ELSE append_loop(s, i + 1,
                    [r EXCEPT !.y = @ + winfo_reqheight(s, widget),
                              !.width =
                                  IF @ < winfo_reqwidth(s, widget)
                                  THEN winfo_reqwidth(s, widget) ELSE @])

(* append placing the new widget at the origin *)
append_at_origin(s, p_object) ==
    LET a == update_idletasks(s)
        r == append_loop(a, 1,
                [x |-> 0, y |-> 0,
                 height |-> winfo_reqheight(a, p_object),
                 width |-> winfo_reqwidth(a, p_object)])
        b == [a EXCEPT !.ser.series = Append(@, p_object)]
        c == place(b, p_object, 0, 0)
    IN  [c EXCEPT !.mreq = [w |-> r.x + r.width, h |-> r.y + r.height]]

append(s, p_object) ==
    LET a == update_idletasks(s)
        r == append_loop(a, 1,
                [x |-> 0, y |-> 0,
                 height |-> winfo_reqheight(a, p_object),
                 width |-> winfo_reqwidth(a, p_object)])
        b == [a EXCEPT !.ser.series = Append(@, p_object)]
        c == place(b, p_object, r.x, r.y)
    IN  [c EXCEPT !.mreq = [w |-> r.x + r.width, h |-> r.y + r.height]]

Series_manage(s, manager) ==
    cleanup([s EXCEPT !.ser.manager = manager])

----------------------------------------------------------------------------
(* SeriesWidget *)

(* SeriesWidget.on_stop without the cleanup *)
SeriesWidget_on_stop_base(s, w) ==
    on_stop(s, w)

SeriesWidget_on_stop(s, w) ==
    cleanup(on_stop(s, w))

----------------------------------------------------------------------------
(* DroppableWidget *)

(* the corners of the Path that drop builds for one sibling *)
ChildPath(s, child) ==
    LET x0 == winfo_x(s, child)
        y0 == winfo_y(s, child)
        x1 == winfo_x(s, child) + winfo_reqwidth(s, child)
        y1 == winfo_y(s, child) + winfo_reqheight(s, child)
    IN  <<<<x0, y0>>, <<x0, y1>>, <<x1, y1>>, <<x1, y0>>>>

(* the compound path of all siblings; a local of drop, never used *)
RECURSIVE DropPoly(_, _, _)
DropPoly(s, self, children) ==
    IF children = <<>> THEN <<>>
    ELSE IF Head(children) = self THEN DropPoly(s, self, Tail(children))
    ELSE ChildPath(s, Head(children)) \o DropPoly(s, self, Tail(children))

(* drop moving right of a sibling that covers the origin *)
drop_avoiding(s, w) ==
    LET a == update_idletasks(s)
        covering == {v \in Widgets \ {w} :
                        a.pl[v].managed /\ winfo_x(a, v) = 0 /\ winfo_y(a, v) = 0}
    IN  IF covering = {} THEN place(a, w, 0, 0)
        ELSE LET v == CHOOSE u \in covering : TRUE
             IN  place(a, w, winfo_reqwidth(a, v), 0)

drop(s, w) ==
    LET a == update_idletasks(s)
        poly == DropPoly(a, w, [i \in 1..NumWidgets |-> i])
    IN  place(a, w, 0, 0)

----------------------------------------------------------------------------
(* The record of a drag: where the widget and the pointer were at the last *)
(* on_click, kept while only on_move events and timer ticks that did not   *)
(* clamp have followed it.                                                 *)

Ev(op, w) == [op |-> op, w |-> w, arg |-> "None"]

NoDrag == [on |-> FALSE, x0 |-> 0, y0 |-> 0, p0 |-> 0, q0 |-> 0]

Classes == {"none", "Widget", "DroppableWidget", "SeriesWidget"}
Draggable == {"DroppableWidget", "SeriesWidget"}

Clicked(s, w) ==
    [drag EXCEPT ![w] =
        IF s.wd[w].placed
        THEN [on |-> TRUE, x0 |-> winfo_x(s, w), y0 |-> winfo_y(s, w),
              p0 |-> winfo_pointerx(s), q0 |-> winfo_pointery(s)]
        ELSE NoDrag]

Followed(s, w) ==
    [drag EXCEPT ![w] = IF s.wd[w].placed THEN @ ELSE NoDrag]

Ticked(s, t, w) ==
    [drag EXCEPT ![w] =
        IF t.wd[w].x = s.wd[w].x /\ t.wd[w].y = s.wd[w].y
        THEN @ ELSE NoDrag]

Dropped(touched) ==
    [w \in Widgets |-> IF w \in touched THEN NoDrag ELSE drag[w]]

----------------------------------------------------------------------------
(* The handlers the event loop runs *)

At(p, q) == [Cur EXCEPT !.pointer = [x |-> p, y |-> q]]

InRange(v) == -MaxCoord <= v /\ v <= MaxCoord

OnClick(w, p, q) ==
    /\ cls[w] \in Draggable
    /\ wd[w].placed => Cardinality(pending) < MaxPending
    /\ Commit(on_click(At(p, q), w))
    /\ ev' = Ev("on_click", w)
    /\ drag' = Clicked(At(p, q), w)

OnMove(w, p, q) ==
    /\ cls[w] \in Draggable
    /\ InRange(on_move(At(p, q), w).wd[w].x)
    /\ InRange(on_move(At(p, q), w).wd[w].y)
    /\ Commit(on_move(At(p, q), w))
    /\ ev' = Ev("on_move", w)
    /\ drag' = Followed(At(p, q), w)

OnStop(w) ==
    /\ cls[w] \in Draggable
    /\ Commit(IF cls[w] = "SeriesWidget"
              THEN SeriesWidget_on_stop(Cur, w)
              ELSE on_stop(Cur, w))
    /\ ev' = Ev("on_stop", w)
    /\ drag' = Dropped(IF cls[w] = "SeriesWidget" THEN Widgets ELSE {w})

Expired(t) == [Cur EXCEPT !.pending = @ \ {t}]

TimerFire(t) ==
    /\ t \in pending
    /\ Commit(place_again(Expired(t), t.w))
    /\ ev' = Ev("place_again", t.w)
    /\ drag' = Ticked(Expired(t), place_again(Expired(t), t.w), t.w)

Place(w, X, Y) ==
    /\ cls[w] \in Draggable
    /\ Commit(place(Cur, w, X, Y))
    /\ ev' = Ev("place", w)
    /\ drag' = Dropped({w})

PlaceForget(w) ==
    /\ cls[w] \in Draggable
    /\ Commit(place_forget(Cur, w))
    /\ ev' = Ev("place_forget", w)
    /\ drag' = Dropped({w})

Drop(w) ==
    /\ cls[w] = "DroppableWidget"
    /\ Commit(drop(Cur, w))
    /\ ev' = Ev("drop", w)
    /\ drag' = Dropped({w})

SeriesNew(orientation) ==
    /\ ~ser.frame
    /\ ser' = Series_init(orientation)
    /\ ev' = [op |-> "Series", w |-> 0, arg |-> orientation]
    /\ UNCHANGED <<wd, cls, req, mreq, pl, geom, stack, pending, pointer, drag>>

RowNew ==
    /\ ~ser.frame
    /\ ser' = Row_init
    /\ ev' = Ev("Row", 0)
    /\ UNCHANGED <<wd, cls, req, mreq, pl, geom, stack, pending, pointer, drag>>

ColumnNew ==
    /\ ~ser.frame
    /\ ser' = Column_init
    /\ ev' = Ev("Column", 0)
    /\ UNCHANGED <<wd, cls, req, mreq, pl, geom, stack, pending, pointer, drag>>

SeriesWidgetNew(w, size) ==
    /\ ser.frame
    /\ cls[w] = "none"
    /\ \A v \in Widgets : v < w => cls[v] # "none"
    /\ cls' = [cls EXCEPT ![w] = "SeriesWidget"]
    /\ wd' = [wd EXCEPT ![w] = DraggableWidget_init]
    /\ req' = [req EXCEPT ![w] = size]
    /\ stack' = Append(stack, w)
    /\ ev' = Ev("SeriesWidget", w)
    /\ UNCHANGED <<mreq, pl, geom, pending, pointer, ser, drag>>

SeriesAppend(w) ==
    /\ cls[w] = "SeriesWidget"
    /\ \A i \in 1..Len(ser.series) : ser.series[i] # w
    /\ Commit(append(Cur, w))
    /\ ev' = Ev("append", w)
    /\ drag' = Dropped({w})

SeriesManage(manager) ==
    /\ ser.frame
    /\ Commit(Series_manage(Cur, manager))
    /\ ev' = Ev(manager, 0)
    /\ drag' = Dropped(Widgets)

----------------------------------------------------------------------------
(* A DroppableWidget (widget 1) among plain siblings in a frame *)

Unborn == [w \in Widgets |-> "none"]

Init ==
    /\ cls = [w \in Widgets |-> IF w = 1 THEN "DroppableWidget" ELSE "Widget"]
    /\ wd = [w \in Widgets |-> DraggableWidget_init]
    /\ \E size \in WidgetSizes, sizes \in [Widgets -> SiblingSizes] :
          req = [sizes EXCEPT ![1] = size]
    /\ mreq \in MasterSizes
    /\ \E at \in [Widgets -> PlacePoints] :
          /\ pl = [w \in Widgets |->
                      IF w = 1 THEN [managed |-> FALSE, x |-> 0, y |-> 0]
                      ELSE [managed |-> TRUE, x |-> at[w].x, y |-> at[w].y]]
          /\ geom = [w \in Widgets |->
                      IF w = 1 THEN [x |-> 0, y |-> 0] ELSE at[w]]
    /\ stack = [i \in 1..NumWidgets |-> i]
    /\ pending = {}
    /\ pointer = [x |-> 0, y |-> 0]
    /\ ser = Series_unborn
    /\ ev = Ev("init", 0)
    /\ drag = [w \in Widgets |-> NoDrag]

Next ==
    \/ \E w \in Widgets, at \in PointerPoints : OnClick(w, at.x, at.y)
    \/ \E w \in Widgets, at \in PointerPoints : OnMove(w, at.x, at.y)
    \/ \E w \in Widgets : OnStop(w)
    \/ \E t \in pending : TimerFire(t)
    \/ \E w \in Widgets, at \in UserPoints : Place(w, at.x, at.y)
    \/ \E w \in Widgets : PlaceForget(w)
    \/ \E w \in Widgets : Drop(w)

Spec == Init /\ [][Next]_vars

----------------------------------------------------------------------------
(* SeriesWidgets in a Series *)

SeriesSizes == {[w |-> 2, h |-> 3], [w |-> 3, h |-> 2]}
SeriesPointerPoints == {[x |-> 0, y |-> 0], [x |-> 3, y |-> 3]}

(* The pointer's implicit grab: from the press that starts a drag to the   *)
(* release that ends it, button events go to the pressed widget.           *)
Dragging(w) == wd[w].place_timer # None

SeriesInit ==
    /\ cls = Unborn
    /\ wd = [w \in Widgets |-> DraggableWidget_init]
    /\ req = [w \in Widgets |-> [w |-> 1, h |-> 1]]
    /\ mreq = [w |-> 1, h |-> 1]
    /\ pl = [w \in Widgets |-> [managed |-> FALSE, x |-> 0, y |-> 0]]
    /\ geom = [w \in Widgets |-> [x |-> 0, y |-> 0]]
    /\ stack = <<>>
    /\ pending = {}
    /\ pointer = [x |-> 0, y |-> 0]
    /\ ser = Series_unborn
    /\ ev = Ev("init", 0)
    /\ drag = [w \in Widgets |-> NoDrag]

SeriesNext ==
    \/ \E orientation \in Orientations : SeriesNew(orientation)
    \/ RowNew
    \/ ColumnNew
    \/ \E w \in Widgets, size \in SeriesSizes : SeriesWidgetNew(w, size)
    \/ \E w \in Widgets : SeriesAppend(w)
    \/ \E manager \in {"pack", "place", "grid"} : SeriesManage(manager)
    \/ \E w \in Widgets, at \in SeriesPointerPoints :
          (\A v \in Widgets : ~Dragging(v)) /\ OnClick(w, at.x, at.y)
    \/ \E w \in Widgets, at \in SeriesPointerPoints :
          (Dragging(w) \/ ~wd[w].placed) /\ OnMove(w, at.x, at.y)
    \/ \E w \in Widgets :
          (Dragging(w) \/ ~wd[w].placed) /\ OnStop(w)
    \/ \E t \in pending : TimerFire(t)

SeriesSpec == SeriesInit /\ [][SeriesNext]_vars

----------------------------------------------------------------------------
(* Properties *)

Handlers == {"on_click", "on_move", "on_stop"}
TimersOf(w) == {t \in pending : t.w = w}
MaxX(w) == mreq.w - req[w].w + Margin
MaxY(w) == mreq.h - req[w].h + Margin

\* C1: while only on_move events and timer ticks that did not clamp have
\* followed the on_click of a placed widget, the tracked position is the
\* position at the click plus the pointer's total displacement since the
\* click, on both axes.
C1_FollowsPointer ==
    \A w \in Widgets :
        drag[w].on =>
            /\ wd[w].x = drag[w].x0 + (pointer.x - drag[w].p0)
            /\ wd[w].y = drag[w].y0 + (pointer.y - drag[w].q0)

C1_Witness ==
    /\ ev.op = "on_move"
    /\ drag[1].on
    /\ pointer.x # drag[1].p0
    /\ wd[1].x # drag[1].x0

\* C2: while _placed is False, on_click, on_move and on_stop change no field
\* of the widget, neither its placement, geometry nor stacking, and schedule
\* or cancel no timer callback.
C2_UnplacedIgnored ==
    [][(/\ ev'.op \in Handlers
        /\ ~wd[ev'.w].placed)
       => UNCHANGED <<wd, pl, geom, stack, pending>>]_vars

C2_Witness ==
    /\ ev.op \in Handlers
    /\ ~wd[ev.w].placed
    /\ TimersOf(ev.w) # {}

\* C3: from an on_click on a placed widget until an on_stop of that widget
\* is handled, a _place_again callback of the widget is pending after
\* every step: each execution of _place_again schedules the next one.
C3_SelfRescheduling ==
    [][\A w \in Widgets :
          (/\ \/ TimersOf(w) # {}
              \/ (ev'.op = "on_click" /\ ev'.w = w /\ wd[w].placed)
           /\ ~(ev'.op = "on_stop" /\ ev'.w = w))
          => \E t \in pending' : t.w = w]_vars

C3_Witness ==
    /\ ev.op = "place_again"
    /\ TimersOf(ev.w) # {}
    /\ wd[ev.w].place_timer \in {t.id : t \in TimersOf(ev.w)}

\* C4: at most one _place_again callback is pending for a widget, and
\* whenever one is pending _place_timer holds its handle.
C4_SingleTimer ==
    \A w \in Widgets :
        /\ Cardinality(TimersOf(w)) <= 1
        /\ \A t \in TimersOf(w) : wd[w].place_timer = t.id

\* C9: once on_stop has handled a release on a placed widget, no
\* _place_again callback of the widget is pending and _place_timer is None.
C9_StopEndsDrag ==
    (ev.op = "on_stop" /\ wd[ev.w].placed)
    => (TimersOf(ev.w) = {} /\ wd[ev.w].place_timer = None)

\* C10 as stated: whenever _place_again re-places the widget, it places it
\* at -5 <= x <= master.reqwidth - widget.reqwidth + 5 and
\* -5 <= y <= master.reqheight - widget.reqheight + 5.
C10_WithinBounds ==
    [][(ev'.op = "place_again" /\ Moved(Cur, ev'.w))
       => /\ -Margin <= pl'[ev'.w].x /\ pl'[ev'.w].x <= MaxX(ev'.w)
          /\ -Margin <= pl'[ev'.w].y /\ pl'[ev'.w].y <= MaxY(ev'.w)]_vars

\* C10 amended: whenever _place_again re-places the widget, it places it
\* at a coordinate >= -5 on each axis; the coordinate is <= master size -
\* widget size + 5 on an axis where that bound is >= -5, and is exactly -5
\* on an axis where the bound is below -5 (a widget more than 10 pixels
\* larger than its master).
C10_Clamped ==
    [][(ev'.op = "place_again" /\ Moved(Cur, ev'.w))
       => /\ pl'[ev'.w].managed
          /\ -Margin <= pl'[ev'.w].x
          /\ -Margin <= pl'[ev'.w].y
          /\ IF MaxX(ev'.w) >= -Margin
             THEN pl'[ev'.w].x <= MaxX(ev'.w)
             ELSE pl'[ev'.w].x = -Margin
          /\ IF MaxY(ev'.w) >= -Margin
             THEN pl'[ev'.w].y <= MaxY(ev'.w)
             ELSE pl'[ev'.w].y = -Margin]_vars

C10_Witness ==
    /\ ev.op = "place_again"
    /\ pl[1].managed
    /\ pl[1].x = MaxX(1)
    /\ pl[1].y = -Margin
    /\ MaxY(1) < -Margin

C5_OrientationChecked ==
    /\ ev.op = "Series" =>
          IF ev.arg \in {HORIZONTAL, VERTICAL}
          THEN /\ ~ser.raised /\ ser.frame
               /\ ser.attrs = {"series", "orientation", "sort_function"}
               /\ ser.orientation = ev.arg
               /\ ser.series = <<>>
          ELSE /\ ser.raised /\ ~ser.frame
               /\ ser.attrs = {}
    /\ ev.op = "Row" =>
          ~ser.raised /\ ser.frame /\ ser.orientation = HORIZONTAL
    /\ ev.op = "Column" =>
          ~ser.raised /\ ser.frame /\ ser.orientation = VERTICAL

C5_Witness ==
    /\ ev.op = "Series"
    /\ ev.arg = "diagonal"
    /\ ser.raised
    /\ ~ser.frame

(* the extent of a widget along the orientation axis, and the sum of the   *)
(* extents of the first n widgets of a list                                *)
Extent(w) == IF ser.orientation = HORIZONTAL THEN req[w].w ELSE req[w].h

RECURSIVE SumExtents(_, _)
SumExtents(list, n) ==
    IF n = 0 THEN 0 ELSE SumExtents(list, n - 1) + Extent(list[n])

Slot(list, i) ==
    IF ser.orientation = HORIZONTAL
    THEN [managed |-> TRUE, x |-> SumExtents(list, i - 1), y |-> 0]
    ELSE [managed |-> TRUE, x |-> 0, y |-> SumExtents(list, i - 1)]

AxisCoordinate(w) ==
    IF ser.orientation = HORIZONTAL THEN geom[w].x ELSE geom[w].y

CleanupOps == {"pack", "place", "grid"}

\* C7: Series.cleanup (run by pack, place and grid) leaves the series list
\* holding the same widgets ordered by the coordinate they had on the
\* orientation axis, and places the widget at index i at the sum of the
\* requested extents of the widgets before it, cross-axis coordinate 0.
C7_CleanupInOrder ==
    [][ev'.op \in CleanupOps
       => /\ Len(ser'.series) = Len(ser.series)
          /\ {ser'.series[i] : i \in 1..Len(ser'.series)}
                = {ser.series[i] : i \in 1..Len(ser.series)}
          /\ \A i, j \in 1..Len(ser'.series) :
                i < j => AxisCoordinate(ser'.series[i])
                            <= AxisCoordinate(ser'.series[j])
          /\ \A i \in 1..Len(ser'.series) :
                /\ pl'[ser'.series[i]] = Slot(ser'.series, i)
                /\ wd'[ser'.series[i]].placed]_vars

C7_Witness ==
    /\ ev.op \in CleanupOps
    /\ ser.series = <<2, 1>>
    /\ req[1] # req[2]
    /\ pl[1] = Slot(ser.series, 2)
    /\ pl[2] = [managed |-> TRUE, x |-> 0, y |-> 0]
    /\ \E w \in Widgets : wd[w].place_timer # None

\* C8: Series.append(w) adds w as the last element of the series list and
\* places it at the sum of the requested extents of the widgets already
\* in the series along the orientation axis, cross-axis coordinate 0; the
\* widgets already in the series keep their order and their placement.
C8_AppendAtEnd ==
    [][ev'.op = "append"
       => /\ ser'.series = Append(ser.series, ev'.w)
          /\ pl'[ev'.w] = Slot(ser'.series, Len(ser'.series))
          /\ wd'[ev'.w].placed
          /\ \A v \in Widgets \ {ev'.w} : pl'[v] = pl[v]]_vars

C8_Witness ==
    /\ ev.op = "append"
    /\ Len(ser.series) = 2
    /\ pl[ev.w].x + pl[ev.w].y > 0
    /\ req[ser.series[1]] # req[ser.series[2]]

(* the largest coordinate a timer tick leaves on an axis: the bound of     *)
(* _place_again, or -5 where that bound is below -5 (see C10)              *)
TickMaxX(w) == IF MaxX(w) >= -Margin THEN MaxX(w) ELSE -Margin
TickMaxY(w) == IF MaxY(w) >= -Margin THEN MaxY(w) ELSE -Margin

InTickBounds(w, X, Y) ==
    /\ -Margin <= X /\ X <= TickMaxX(w)
    /\ -Margin <= Y /\ Y <= TickMaxY(w)

\* C11: when on_stop places the widget (it was placed and its timer was
\* running), it places it at (_x, _y), and that position respects the
\* bounds the timer ticks enforce: -5 <= _x <= master.reqwidth -
\* widget.reqwidth + 5 and -5 <= _y <= master.reqheight - widget.reqheight
\* + 5 (the upper bound taken as -5 where it is below -5), also when
\* on_move events arrived after the last timer tick. Stated for a drag
\* that started at a position within those bounds.
C11_StopWithinBounds ==
    [][(/\ ev'.op = "on_stop"
        /\ wd[ev'.w].placed
        /\ wd[ev'.w].place_timer # None
        /\ drag[ev'.w].on
        /\ InTickBounds(ev'.w, drag[ev'.w].x0, drag[ev'.w].y0))
       => /\ pl'[ev'.w].managed
          /\ pl'[ev'.w].x = wd[ev'.w].x
          /\ pl'[ev'.w].y = wd[ev'.w].y
          /\ InTickBounds(ev'.w, pl'[ev'.w].x, pl'[ev'.w].y)]_vars

(* where a release leaves widget v on the orientation axis when widget w   *)
(* is released: the dragged position on_stop places w at, and for every    *)
(* other widget the coordinate it has                                      *)
DroppedAt(w, v) ==
    IF v = w /\ wd[w].placed /\ wd[w].place_timer # None
    THEN IF ser.orientation = HORIZONTAL THEN wd[w].x ELSE wd[w].y
    ELSE AxisCoordinate(v)

\* C12: releasing a SeriesWidget runs the base on_stop (timer cancelled,
\* widget placed at its dragged position) and then the Series' cleanup,
\* also when the widget was not placed; once the release is handled every
\* widget of the series sits in its contiguous slot and the series list is
\* ordered by where the widget was dropped.
C12_ReleaseSorts ==
    [][(ev'.op = "on_stop" /\ cls[ev'.w] = "SeriesWidget")
       => /\ wd'[ev'.w].place_timer = None
          /\ \A t \in pending' : t.w # ev'.w
          /\ \A i \in 1..Len(ser'.series) :
                /\ pl'[ser'.series[i]] = Slot(ser'.series, i)
                /\ wd'[ser'.series[i]].placed
          /\ \A i, j \in 1..Len(ser'.series) :
                i < j => DroppedAt(ev'.w, ser'.series[i])
                            <= DroppedAt(ev'.w, ser'.series[j])]_vars

NoDragInProgress == \A w \in Widgets : wd[w].place_timer = None

Encloses(w) ==
    /\ pl[w].x >= 0 /\ pl[w].x + req[w].w <= mreq.w
    /\ pl[w].y >= 0 /\ pl[w].y + req[w].h <= mreq.h

Overlap(v, w) ==
    /\ pl[v].x < pl[w].x + req[w].w /\ pl[w].x < pl[v].x + req[v].w
    /\ pl[v].y < pl[w].y + req[w].h /\ pl[w].y < pl[v].y + req[v].h

\* C13: whenever no drag is in progress, the widget at index i of the
\* series list is placed at the sum of the extents of the widgets before
\* it (cross-axis coordinate 0), no two widgets of the series overlap, and
\* the frame size configured by the last append encloses all of them.
C13_SeriesContiguous ==
    NoDragInProgress =>
        /\ \A i \in 1..Len(ser.series) :
              /\ pl[ser.series[i]] = Slot(ser.series, i)
              /\ Encloses(ser.series[i])
        /\ \A i, j \in 1..Len(ser.series) :
              i # j => ~Overlap(ser.series[i], ser.series[j])

C13_Witness ==
    /\ NoDragInProgress
    /\ ev.op = "on_stop"
    /\ ser.series = <<2, 1>>
    /\ req[1] # req[2]
    /\ pl[1] = Slot(ser.series, 2)
    /\ wd[1].px # 0

====
